---- MODULE Spec2Model ----
(***************************************************************************)
(* State-machine model of the wearedood/web3 toolkit:                      *)
(*   - the BaseIntegration instance of src/BaseIntegration.js (wallet,     *)
(*     contract registry, gas settings, activity score);                   *)
(*   - the stateless fee and eligibility utilities of                      *)
(*     src/unnamed/part_001 (BaseGasOptimizer.getOptimalGas) and           *)
(*     src/base-builder-utilities.js (BaseDeFiUtils.getOptimalGasFees,     *)
(*     BaseAnalytics.checkRewardsEligibility);                             *)
(*   - the wallet-guarded calls of src/unnamed/part_001                    *)
(*     (BaseProvider.deployContract, BaseIntegration.sendETH).             *)
(* The chain client (ethers / viem) is the environment: what it answers,   *)
(* and whether it fails, is an input of each action.                       *)
(***************************************************************************)
EXTENDS Integers, Sequences, FiniteSets

VARIABLES
    wallet,          \* this.wallet: "null" or the wallet's address
    contracts,       \* this.contracts: Map name -> [address]
    gasSettings,     \* this.gasSettings
    ret,             \* what the last call returned or threw
    chain,           \* what the chain client answered during the last call
    lastScore,       \* the last calculateActivityScore() call: what it read, what it returned
    repeated,        \* the calls that have so far repeated an earlier one on the same inputs
    providerWallet   \* part_001's BaseProvider: its wallet, "null" or the wallet's address

vars == <<wallet, contracts, gasSettings, ret, chain, lastScore, repeated, providerWallet>>

(***************************************************************************)
(* Bounds of the model.                                                    *)
(***************************************************************************)
\* Contract names are 1..MaxNames.  Names are interchangeable, so a name not
\* yet in the registry is always the least unused one.
MaxNames == 21
\* Names 1..MaxRenamed are deployed again and called once registered, at any
\* address of Addresses; the others are deployed once, at address 1.
MaxRenamed == 1
\* The chain assigns a deployment one of the addresses 1..MaxAddr.
MaxAddr == 2

Names == 1..MaxNames
Addresses == 1..MaxAddr

\* Private keys: ethers.Wallet accepts k1 and k2 and throws on "bad".
ValidKeys == {"k1", "k2"}
Keys == ValidKeys \cup {"bad"}
WalletAddress(key) == IF key = "k1" THEN "0xW1" ELSE "0xW2"

(***************************************************************************)
(* Program constants of BaseIntegration.js.                                *)
(***************************************************************************)
ContractPoints == 50
WalletPoints == 10
NetworkPoints == 20
ScoreCap == 1000
DefaultGasLimit == 500000
DefaultMaxFeeGwei == 20
DefaultMaxPriorityFeeGwei == 1

Min(a, b) == IF a <= b THEN a ELSE b

\* Map.size
MapSize(m) == Cardinality(DOMAIN m)
\* Map.set(key, value)
MapSet(m, key, value) ==
    [k \in (DOMAIN m) \cup {key} |-> IF k = key THEN value ELSE m[k]]
EmptyMap == [k \in {} |-> 0]

\* The names a call can pass: the registered ones up to MaxRenamed and the
\* least unused one.
FreshNames(m) == {n \in Names : n = MapSize(m) + 1}
CandidateNames(m) == {n \in DOMAIN m : n <= MaxRenamed} \cup FreshNames(m)
\* The addresses the chain can give a deployment under name n.
AddressesOf(n) == IF n <= MaxRenamed THEN Addresses ELSE {1}

(***************************************************************************)
(* calculateActivityScore(): reads this.contracts and this.wallet.         *)
(***************************************************************************)
calculateActivityScore_uncapped(c, w) ==
    MapSize(c) * ContractPoints + (IF w # "null" THEN WalletPoints ELSE 0) + NetworkPoints

calculateActivityScore_noNetwork(c, w) ==
    Min(MapSize(c) * ContractPoints + (IF w # "null" THEN WalletPoints ELSE 0), ScoreCap)

calculateActivityScore_offByOne(c, w) ==
    Min((MapSize(c) + 1) * ContractPoints + (IF w # "null" THEN WalletPoints ELSE 0)
        + NetworkPoints, ScoreCap)

calculateActivityScore(c, w) ==
    LET afterContracts == 0 + MapSize(c) * ContractPoints
        afterWallet == IF w # "null" THEN afterContracts + WalletPoints ELSE afterContracts
        score == afterWallet + NetworkPoints
    IN  Min(score, ScoreCap)

\* getOptimizationRecommendations(): reads this.contracts and this.wallet.
getOptimizationRecommendations(c, w) ==
    (IF MapSize(c) = 0 THEN <<"Deploy smart contracts to increase activity score">> ELSE <<>>)
    \o (IF w = "null" THEN <<"Initialize wallet for transaction capabilities">> ELSE <<>>)
    \o <<"Integrate with DeFi protocols for higher rewards",
         "Implement automated testing for contract reliability">>

Thrown(op, message) == [op |-> op, status |-> "error", error |-> message]

ScoreRead(c, w) == [size |-> MapSize(c), hasWallet |-> (w # "null"),
                    score |-> calculateActivityScore(c, w)]
NoScore == [size |-> -1, hasWallet |-> FALSE, score |-> -1]

(***************************************************************************)
(* The constructors: BaseIntegration.js's BaseIntegration(config), and     *)
(* part_001's BaseProvider(network, privateKey) with its default arguments *)
(* (no private key, so no wallet).                                         *)
(***************************************************************************)
NoCalls == [calls |-> <<>>]

Init ==
    /\ wallet = "null"
    /\ contracts = EmptyMap
    /\ gasSettings = [gasLimit |-> DefaultGasLimit,
                      maxFeePerGasGwei |-> DefaultMaxFeeGwei,
                      maxPriorityFeePerGasGwei |-> DefaultMaxPriorityFeeGwei]
    /\ ret = [op |-> "constructor", status |-> "ok"]
    /\ chain = NoCalls
    /\ lastScore = NoScore
    /\ repeated = {}
    /\ providerWallet = "null"

(***************************************************************************)
(* initializeWallet(privateKey).  balanceOk: whether provider.getBalance   *)
(* answers for the new wallet's address.  The wallet is assigned before    *)
(* the balance is queried.                                                 *)
(***************************************************************************)
\* initializeWallet keeping the new wallet only once its balance was read.
initializeWallet_atomic(key, balanceOk) ==
    /\ IF key \notin ValidKeys
       THEN /\ wallet' = wallet
            /\ chain' = NoCalls
            /\ ret' = Thrown("initializeWallet", "Failed to initialize wallet")
       ELSE /\ wallet' = IF balanceOk THEN WalletAddress(key) ELSE wallet
            /\ chain' = [calls |-> <<"getBalance">>, address |-> WalletAddress(key)]
            /\ ret' = IF balanceOk
                      THEN [op |-> "initializeWallet", status |-> "ok",
                            address |-> WalletAddress(key)]
                      ELSE Thrown("initializeWallet", "Failed to initialize wallet")
    /\ UNCHANGED <<providerWallet, repeated, contracts, gasSettings, lastScore>>

\* initializeWallet dropping the wallet in use before it builds the new one.
initializeWallet_resetting(key, balanceOk) ==
    /\ IF key \notin ValidKeys
       THEN /\ wallet' = "null"
            /\ chain' = NoCalls
            /\ ret' = Thrown("initializeWallet", "Failed to initialize wallet")
       ELSE /\ wallet' = WalletAddress(key)
            /\ chain' = [calls |-> <<"getBalance">>, address |-> WalletAddress(key)]
            /\ ret' = IF balanceOk
                      THEN [op |-> "initializeWallet", status |-> "ok",
                            address |-> WalletAddress(key)]
                      ELSE Thrown("initializeWallet", "Failed to initialize wallet")
    /\ UNCHANGED <<providerWallet, repeated, contracts, gasSettings, lastScore>>

initializeWallet(key, balanceOk) ==
    /\ IF key \notin ValidKeys
       THEN /\ wallet' = wallet
            /\ chain' = NoCalls
            /\ ret' = Thrown("initializeWallet", "Failed to initialize wallet")
       ELSE /\ wallet' = WalletAddress(key)
            /\ chain' = [calls |-> <<"getBalance">>, address |-> WalletAddress(key)]
            /\ ret' = IF balanceOk
                      THEN [op |-> "initializeWallet", status |-> "ok",
                            address |-> WalletAddress(key)]
                      ELSE Thrown("initializeWallet", "Failed to initialize wallet")
    /\ UNCHANGED <<providerWallet, repeated, contracts, gasSettings, lastScore>>

(***************************************************************************)
(* deployContract(contractData, constructorArgs).  outcome: the step of    *)
(* the deployment at which the chain client fails, or "ok".                *)
(***************************************************************************)
DeployOutcomes == {"ok", "deployFails", "waitFails", "getAddressFails"}

DeployCalls(outcome) ==
    IF outcome = "deployFails" THEN <<"deploy">>
    ELSE IF outcome = "waitFails" THEN <<"deploy", "waitForDeployment">>
    ELSE <<"deploy", "waitForDeployment", "getAddress">>

\* deployContract without the wallet guard.
deployContract_unguarded(name, outcome, address) ==
    /\ IF outcome # "ok"
       THEN /\ contracts' = contracts
            /\ chain' = [calls |-> DeployCalls(outcome)]
            /\ ret' = Thrown("deployContract", "Contract deployment failed")
       ELSE /\ contracts' = MapSet(contracts, name, [address |-> address])
            /\ chain' = [calls |-> DeployCalls(outcome)]
            /\ ret' = [op |-> "deployContract", status |-> "ok",
                       name |-> name, address |-> address]
    /\ UNCHANGED <<providerWallet, repeated, wallet, gasSettings, lastScore>>

\* deployContract registering the contract as soon as factory.deploy returned.
deployContract_eager(name, outcome, address) ==
    /\ IF wallet = "null"
       THEN /\ contracts' = contracts
            /\ chain' = NoCalls
            /\ ret' = Thrown("deployContract", "Wallet not initialized")
       ELSE IF outcome = "deployFails"
       THEN /\ contracts' = contracts
            /\ chain' = [calls |-> DeployCalls(outcome)]
            /\ ret' = Thrown("deployContract", "Contract deployment failed")
       ELSE /\ contracts' = MapSet(contracts, name, [address |-> address])
            /\ chain' = [calls |-> DeployCalls(outcome)]
            /\ ret' = IF outcome # "ok"
                      THEN Thrown("deployContract", "Contract deployment failed")
                      ELSE [op |-> "deployContract", status |-> "ok",
                            name |-> name, address |-> address]
    /\ UNCHANGED <<providerWallet, repeated, wallet, gasSettings, lastScore>>

\* deployContract keeping the entry a name already has.
deployContract_keepFirst(name, outcome, address) ==
    /\ IF wallet = "null"
       THEN /\ contracts' = contracts
            /\ chain' = NoCalls
            /\ ret' = Thrown("deployContract", "Wallet not initialized")
       ELSE IF outcome # "ok"
       THEN /\ contracts' = contracts
            /\ chain' = [calls |-> DeployCalls(outcome)]
            /\ ret' = Thrown("deployContract", "Contract deployment failed")
       ELSE /\ contracts' = IF name \in DOMAIN contracts
                            THEN contracts
                            ELSE MapSet(contracts, name, [address |-> address])
            /\ chain' = [calls |-> DeployCalls(outcome)]
            /\ ret' = [op |-> "deployContract", status |-> "ok",
                       name |-> name, address |-> address]
    /\ UNCHANGED <<providerWallet, repeated, wallet, gasSettings, lastScore>>

deployContract(name, outcome, address) ==
    /\ IF wallet = "null"
       THEN /\ contracts' = contracts
            /\ chain' = NoCalls
            /\ ret' = Thrown("deployContract", "Wallet not initialized")
       ELSE IF outcome # "ok"
       THEN /\ contracts' = contracts
            /\ chain' = [calls |-> DeployCalls(outcome)]
            /\ ret' = Thrown("deployContract", "Contract deployment failed")
       ELSE /\ contracts' = MapSet(contracts, name, [address |-> address])
            /\ chain' = [calls |-> DeployCalls(outcome)]
            /\ ret' = [op |-> "deployContract", status |-> "ok",
                       name |-> name, address |-> address]
    /\ UNCHANGED <<providerWallet, repeated, wallet, gasSettings, lastScore>>

(***************************************************************************)
(* callContract(contractName, methodName, args).  callOk: whether the      *)
(* contract method returns.                                                *)
(***************************************************************************)
callContract(name, callOk) ==
    /\ IF name \notin DOMAIN contracts
       THEN /\ chain' = NoCalls
            /\ ret' = [op |-> "callContract", status |-> "error",
                       error |-> "Contract not found", name |-> name]
       ELSE /\ chain' = [calls |-> <<"method">>, address |-> contracts[name].address]
            /\ ret' = IF callOk
                      THEN [op |-> "callContract", status |-> "ok", name |-> name,
                            address |-> contracts[name].address]
                      ELSE [op |-> "callContract", status |-> "error",
                            error |-> "Contract call failed", name |-> name]
    /\ UNCHANGED <<providerWallet, repeated, wallet, contracts, gasSettings, lastScore>>

(***************************************************************************)
(* sendTransaction(transaction).  outcome: whether wallet.sendTransaction  *)
(* or tx.wait fails.                                                       *)
(***************************************************************************)
SendOutcomes == {"ok", "sendFails", "waitFails"}

sendTransaction(outcome) ==
    /\ IF wallet = "null"
       THEN /\ chain' = NoCalls
            /\ ret' = Thrown("sendTransaction", "Wallet not initialized")
       ELSE /\ chain' = [calls |-> IF outcome = "sendFails"
                                   THEN <<"sendTransaction">>
                                   ELSE <<"sendTransaction", "wait">>]
            /\ ret' = IF outcome # "ok"
                      THEN Thrown("sendTransaction", "Transaction failed")
                      ELSE [op |-> "sendTransaction", status |-> "ok", from |-> wallet,
                            gas |-> gasSettings]
    /\ UNCHANGED <<providerWallet, repeated, wallet, contracts, gasSettings, lastScore>>

(***************************************************************************)
(* getNetworkStats().  statsOk: whether the three provider queries answer. *)
(***************************************************************************)
StatsCalls == [calls |-> <<"getBlockNumber", "getFeeData", "getNetwork">>]

getNetworkStats(statsOk) ==
    /\ ret' = IF statsOk
              THEN [op |-> "getNetworkStats", status |-> "ok"]
              ELSE Thrown("getNetworkStats", "Failed to get network stats")
    /\ chain' = StatsCalls
    /\ UNCHANGED <<providerWallet, repeated, wallet, contracts, gasSettings, lastScore>>

(***************************************************************************)
(* calculateActivityScore(), called directly or by trackBuilderActivity(). *)
(* A call repeats the last one when it reads the same registry size and    *)
(* the same wallet state.                                                  *)
(***************************************************************************)
ScoreRepeats(c, w) ==
    IF /\ lastScore # NoScore
       /\ lastScore.size = MapSize(c)
       /\ lastScore.hasWallet = (w # "null")
    THEN repeated \cup {"score"} ELSE repeated

CallCalculateActivityScore ==
    /\ ret' = [op |-> "calculateActivityScore", status |-> "ok",
               score |-> calculateActivityScore(contracts, wallet)]
    /\ chain' = NoCalls
    /\ lastScore' = ScoreRead(contracts, wallet)
    /\ repeated' = ScoreRepeats(contracts, wallet)
    /\ UNCHANGED <<providerWallet, wallet, contracts, gasSettings>>

(***************************************************************************)
(* trackBuilderActivity(): getNetworkStats(), then the registry size, the  *)
(* wallet address and calculateActivityScore().                            *)
(***************************************************************************)
\* The returned object, without its timestamp and network statistics.
Activity(c, w) ==
    [deployedContracts |-> MapSize(c),
     walletAddress |-> w,
     activityScore |-> calculateActivityScore(c, w)]

trackBuilderActivity(statsOk) ==
    /\ IF statsOk
       THEN /\ ret' = [op |-> "trackBuilderActivity", status |-> "ok",
                       activity |-> Activity(contracts, wallet)]
            /\ lastScore' = ScoreRead(contracts, wallet)
            /\ repeated' = ScoreRepeats(contracts, wallet)
       ELSE /\ ret' = Thrown("trackBuilderActivity", "Failed to get network stats")
            /\ lastScore' = lastScore
            /\ repeated' = repeated
    /\ chain' = StatsCalls
    /\ UNCHANGED <<providerWallet, wallet, contracts, gasSettings>>

(***************************************************************************)
(* generateActivityReport(): trackBuilderActivity(), getDefiProtocols(),   *)
(* getOptimizationRecommendations().                                       *)
(***************************************************************************)
\* A report that also resets the registry.
generateActivityReport_clearing(statsOk) ==
    /\ IF statsOk
       THEN /\ ret' = [op |-> "generateActivityReport", status |-> "ok",
                       activity |-> Activity(contracts, wallet),
                       supportedProtocols |-> <<"uniswap", "aave", "compound">>,
                       recommendations |-> getOptimizationRecommendations(contracts, wallet)]
            /\ lastScore' = ScoreRead(contracts, wallet)
            /\ repeated' = ScoreRepeats(contracts, wallet)
            /\ contracts' = EmptyMap
       ELSE /\ ret' = Thrown("generateActivityReport", "Failed to get network stats")
            /\ lastScore' = lastScore
            /\ repeated' = repeated
            /\ contracts' = contracts
    /\ chain' = StatsCalls
    /\ UNCHANGED <<providerWallet, wallet, gasSettings>>

generateActivityReport(statsOk) ==
    /\ IF statsOk
       THEN /\ ret' = [op |-> "generateActivityReport", status |-> "ok",
                       activity |-> Activity(contracts, wallet),
                       supportedProtocols |-> <<"uniswap", "aave", "compound">>,
                       recommendations |-> getOptimizationRecommendations(contracts, wallet)]
            /\ lastScore' = ScoreRead(contracts, wallet)
            /\ repeated' = ScoreRepeats(contracts, wallet)
       ELSE /\ ret' = Thrown("generateActivityReport", "Failed to get network stats")
            /\ lastScore' = lastScore
            /\ repeated' = repeated
    /\ chain' = StatsCalls
    /\ UNCHANGED <<providerWallet, wallet, contracts, gasSettings>>

(***************************************************************************)
(* getOptimizationRecommendations(), called directly.                      *)
(***************************************************************************)
CallGetOptimizationRecommendations ==
    /\ ret' = [op |-> "getOptimizationRecommendations", status |-> "ok",
               recommendations |-> getOptimizationRecommendations(contracts, wallet)]
    /\ chain' = NoCalls
    /\ UNCHANGED <<providerWallet, repeated, wallet, contracts, gasSettings, lastScore>>

(***************************************************************************)
(* The BaseIntegration instance under any sequence of calls.               *)
(***************************************************************************)
CallInitializeWallet ==
    \E key \in Keys, balanceOk \in BOOLEAN : initializeWallet(key, balanceOk)

CallDeployContract ==
    \E name \in CandidateNames(contracts), outcome \in DeployOutcomes :
        \E address \in AddressesOf(name) : deployContract(name, outcome, address)

CallCallContract ==
    \E name \in CandidateNames(contracts), callOk \in BOOLEAN : callContract(name, callOk)

Next ==
    \/ CallInitializeWallet
    \/ CallDeployContract
    \/ CallCallContract
    \/ \E outcome \in SendOutcomes : sendTransaction(outcome)
    \/ \E statsOk \in BOOLEAN : getNetworkStats(statsOk)
    \/ CallCalculateActivityScore
    \/ \E statsOk \in BOOLEAN : trackBuilderActivity(statsOk)
    \/ \E statsOk \in BOOLEAN : generateActivityReport(statsOk)
    \/ CallGetOptimizationRecommendations

Spec == Init /\ [][Next]_vars

(***************************************************************************)
(* The fee and eligibility utilities.                                      *)
(***************************************************************************)
\* Observed fees are 0..MaxFee, two negative values and one gwei.
MaxFee == 15

\* Program constants of the utilities.
SlowPercent == 90
FastPercent == 110
InstantPercent == 125
PercentBase == 100
MinTransactions == 10
MaxRandomContracts == 10
WeiPerGwei == 1000000000
GweiPerEther == 1000000000
\* 0.01 ether, in gwei
MinBalanceGwei == 10000000

\* A value that may be null: <<>> is null, <<x>> is x.
Null == <<>>
Some(x) == <<x>>
IsNull(v) == Len(v) = 0
Get(v) == v[1]

\* BigInt x * BigInt(n) / BigInt(d): the exact product, divided with the
\* quotient truncated toward zero.  x = d*q + r gives x*n/d = n*q + (n*r)/d,
\* which keeps every intermediate value small.
BigIntMulDiv(x, n, d) ==
    LET a == IF x >= 0 THEN x ELSE -x
        q == (a \div d) * n + ((a % d) * n) \div d
    IN  IF x >= 0 THEN q ELSE -q

SlowTier_inverted(x) == BigIntMulDiv(x, PercentBase, SlowPercent)

SlowTier_rounded(x) ==
    BigIntMulDiv(x, SlowPercent, PercentBase)
    + (IF 2 * (((x % PercentBase) * SlowPercent) % PercentBase) >= PercentBase THEN 1 ELSE 0)

SlowTier(x) == BigIntMulDiv(x, SlowPercent, PercentBase)

FastTier_instant(x) == BigIntMulDiv(x, InstantPercent, PercentBase)

FastTier(x) == BigIntMulDiv(x, FastPercent, PercentBase)

InstantTier(x) == BigIntMulDiv(x, InstantPercent, PercentBase)

Tier(fee, priority) == [maxFeePerGas |-> fee, maxPriorityFeePerGas |-> priority]

\* getOptimalGas's `recommended`
Recommended(maxFee, maxPriority) ==
    [slow     |-> Tier(SlowTier(maxFee), SlowTier(maxPriority)),
     standard |-> Tier(maxFee, maxPriority),
     fast     |-> Tier(FastTier(maxFee), FastTier(maxPriority))]

\* What the provider can answer for a fee: the code takes any BigInt, so two
\* negative values stand for answers outside the fee domain.
FeeValues == (0..MaxFee) \cup {-10, -1, WeiPerGwei}
FeeAnswers == {Null} \cup {Some(x) : x \in FeeValues}

(***************************************************************************)
(* BaseGasOptimizer.getOptimalGas().  feeOk: whether getFeeData answers    *)
(* (getBlockNumber and getBlock then answer too); maxFee, maxPriority: the *)
(* fee data's maxFeePerGas and maxPriorityFeePerGas, each a BigInt or      *)
(* null.  A null multiplied by a BigInt throws a TypeError.                *)
(***************************************************************************)
getOptimalGas(feeOk, maxFee, maxPriority) ==
    /\ chain' = IF feeOk
                THEN [calls |-> <<"getFeeData", "getBlockNumber", "getBlock">>,
                      answered |-> TRUE,
                      maxFeePerGas |-> maxFee, maxPriorityFeePerGas |-> maxPriority]
                ELSE [calls |-> <<"getFeeData">>, answered |-> FALSE]
    /\ ret' = IF ~feeOk
              THEN Thrown("getOptimalGas", "provider error")
              ELSE IF IsNull(maxFee) \/ IsNull(maxPriority)
              THEN Thrown("getOptimalGas", "TypeError")
              ELSE [op |-> "getOptimalGas", status |-> "ok",
                    maxFeePerGas |-> Get(maxFee),
                    maxPriorityFeePerGas |-> Get(maxPriority),
                    recommended |-> Recommended(Get(maxFee), Get(maxPriority))]
    /\ UNCHANGED <<providerWallet, repeated, wallet, contracts, gasSettings, lastScore>>

(***************************************************************************)
(* BaseDeFiUtils.getOptimalGasFees().  gasPrice: the client's getGasPrice, *)
(* a BigInt.                                                               *)
(***************************************************************************)
getOptimalGasFees(priceOk, gasPrice) ==
    /\ chain' = IF priceOk
                THEN [calls |-> <<"getGasPrice">>, answered |-> TRUE, gasPrice |-> gasPrice]
                ELSE [calls |-> <<"getGasPrice">>, answered |-> FALSE]
    /\ ret' = IF ~priceOk
              THEN Thrown("getOptimalGasFees", "provider error")
              ELSE [op |-> "getOptimalGasFees", status |-> "ok",
                    standard |-> gasPrice,
                    fast |-> FastTier(gasPrice),
                    instant |-> InstantTier(gasPrice),
                    network |-> "Base"]
    /\ UNCHANGED <<providerWallet, repeated, wallet, contracts, gasSettings, lastScore>>

(***************************************************************************)
(* Balances in wei: sign, whole gwei, and wei below one gwei.              *)
(***************************************************************************)
Wei(neg, gwei, wei) == [neg |-> neg, gwei |-> gwei, wei |-> wei]

BalanceValues ==
    {Wei(TRUE, 0, 1),
     Wei(FALSE, MinBalanceGwei - 1, WeiPerGwei - 1),
     Wei(FALSE, MinBalanceGwei, 0),
     Wei(FALSE, GweiPerEther, 0)}

\* Transaction counts around the threshold; -1 and the negative balance stand
\* for answers outside the domain, which the code takes as they come.
TxCounts == {-1, 9, 10}
RandomContracts == 1..MaxRandomContracts
Accounts == {"0xA"}

\* viem formatEther: the decimal string of wei / 10^18, as sign, whole
\* ethers and the 18 fraction digits (9 and 9).
formatEther(b) ==
    [neg |-> b.neg,
     whole |-> b.gwei \div GweiPerEther,
     frac |-> <<b.gwei % GweiPerEther, b.wei>>]

\* parseFloat(balance) >= 0.01.  parseFloat is monotone and maps the decimal
\* 0.01 to the double 0.01 and 0.009999999999999999 to a smaller double, so
\* the doubles compare as the 18-digit decimals do.
AtLeastMinBalance(balance) ==
    /\ ~balance.neg
    /\ \/ balance.whole >= 1
       \/ balance.frac[1] >= MinBalanceGwei

\* BaseBuilderTracker.getBuilderMetrics (the timestamp is left out)
getBuilderMetrics(address, balance, txCount, contractsDeployed) ==
    [address |-> address,
     balance |-> formatEther(balance),
     transactionCount |-> txCount,
     contractsDeployed |-> contractsDeployed,
     network |-> "Base"]

\* checkRewardsEligibility's `eligibility`
Eligibility_noBalance(metrics) ==
    LET activity == metrics.transactionCount >= MinTransactions
        deployed == metrics.contractsDeployed > 0
        balance == AtLeastMinBalance(metrics.balance)
    IN  [hasMinimumActivity |-> activity,
         hasDeployedContracts |-> deployed,
         hasMinimumBalance |-> balance,
         overallEligible |-> activity /\ deployed]

Eligibility_strictActivity(metrics) ==
    LET activity == metrics.transactionCount > MinTransactions
        deployed == metrics.contractsDeployed > 0
        balance == AtLeastMinBalance(metrics.balance)
    IN  [hasMinimumActivity |-> activity,
         hasDeployedContracts |-> deployed,
         hasMinimumBalance |-> balance,
         overallEligible |-> activity /\ deployed /\ balance]

Eligibility_manyContracts(metrics) ==
    LET activity == metrics.transactionCount >= MinTransactions
        deployed == metrics.contractsDeployed > 5
        balance == AtLeastMinBalance(metrics.balance)
    IN  [hasMinimumActivity |-> activity,
         hasDeployedContracts |-> deployed,
         hasMinimumBalance |-> balance,
         overallEligible |-> activity /\ deployed /\ balance]

Eligibility(metrics) ==
    LET activity == metrics.transactionCount >= MinTransactions
        deployed == metrics.contractsDeployed > 0
        balance == AtLeastMinBalance(metrics.balance)
    IN  [hasMinimumActivity |-> activity,
         hasDeployedContracts |-> deployed,
         hasMinimumBalance |-> balance,
         overallEligible |-> activity /\ deployed /\ balance]

(***************************************************************************)
(* BaseAnalytics.checkRewardsEligibility(address).  metricsOk: whether     *)
(* getBalance and getTransactionCount answer; balance, txCount: their      *)
(* answers; random: what getContractsDeployed draws.  A run repeats the    *)
(* last call when that was a run for the same address with the same        *)
(* answers.                                                                *)
(***************************************************************************)
MetricsCalls == <<"getBalance", "getTransactionCount">>

EligibilityAnswers(balance, txCount) ==
    [calls |-> MetricsCalls, answered |-> TRUE,
     balance |-> balance, transactionCount |-> txCount]

checkRewardsEligibility(address, metricsOk, balance, txCount, random) ==
    /\ chain' = IF metricsOk
                THEN EligibilityAnswers(balance, txCount)
                ELSE [calls |-> MetricsCalls, answered |-> FALSE]
    /\ ret' = IF ~metricsOk
              THEN Thrown("checkRewardsEligibility", "provider error")
              ELSE LET metrics == getBuilderMetrics(address, balance, txCount, random)
                   IN  [op |-> "checkRewardsEligibility", status |-> "ok",
                        address |-> address,
                        eligibility |-> Eligibility(metrics),
                        metrics |-> metrics]
    /\ repeated' = IF /\ metricsOk
                      /\ ret.op = "checkRewardsEligibility"
                      /\ ret.status = "ok"
                      /\ ret.address = address
                      /\ chain = EligibilityAnswers(balance, txCount)
                   THEN repeated \cup {"eligibility"} ELSE repeated
    /\ UNCHANGED <<providerWallet, wallet, contracts, gasSettings, lastScore>>

CallGetOptimalGas ==
    \E feeOk \in BOOLEAN, maxFee \in FeeAnswers, maxPriority \in FeeAnswers :
        getOptimalGas(feeOk, maxFee, maxPriority)

CallGetOptimalGasFees ==
    \E priceOk \in BOOLEAN, gasPrice \in FeeValues : getOptimalGasFees(priceOk, gasPrice)

CallCheckRewardsEligibility ==
    \E address \in Accounts, metricsOk \in BOOLEAN, balance \in BalanceValues :
        \E txCount \in TxCounts, random \in (IF metricsOk THEN RandomContracts ELSE {1}) :
            checkRewardsEligibility(address, metricsOk, balance, txCount, random)

(***************************************************************************)
(* The utilities under any sequence of calls.                              *)
(***************************************************************************)
NextUtil ==
    \/ CallGetOptimalGas
    \/ CallGetOptimalGasFees
    \/ CallCheckRewardsEligibility

SpecUtil == Init /\ [][NextUtil]_vars

(***************************************************************************)
(* Activity scores and eligibility runs between calls that change the      *)
(* BaseIntegration instance.                                               *)
(***************************************************************************)
\* Here the registry holds at most MaxIdemNames names.
MaxIdemNames == 2

CallDeployContractFew ==
    \E name \in CandidateNames(contracts) \cap (1..MaxIdemNames), outcome \in DeployOutcomes :
        \E address \in AddressesOf(name) : deployContract(name, outcome, address)

NextIdem ==
    \/ CallInitializeWallet
    \/ CallDeployContractFew
    \/ CallCalculateActivityScore
    \/ CallCheckRewardsEligibility

SpecIdem == Init /\ [][NextIdem]_vars

(***************************************************************************)
(* part_001's toolkit: a BaseProvider holds the wallet, made by its        *)
(* constructor when a private key is given and never assigned afterwards.  *)
(***************************************************************************)
\* The privateKey argument: null (the default) or a key.
NoKey == "null"

\* new BaseProvider(network, privateKey), as new BaseIntegration(network,
\* privateKey) of part_001 runs it.  ethers.Wallet throws on a bad key, and
\* then the provider in use stays the one built before.
BaseProvider(key) ==
    /\ IF key = NoKey
       THEN /\ providerWallet' = "null"
            /\ ret' = [op |-> "BaseProvider", status |-> "ok"]
       ELSE IF key \notin ValidKeys
       THEN /\ providerWallet' = providerWallet
            /\ ret' = Thrown("BaseProvider", "invalid private key")
       ELSE /\ providerWallet' = WalletAddress(key)
            /\ ret' = [op |-> "BaseProvider", status |-> "ok"]
    /\ chain' = NoCalls
    /\ UNCHANGED <<repeated, wallet, contracts, gasSettings, lastScore>>

\* BaseProvider.deployContract(contractABI, contractBytecode, constructorArgs):
\* no registry and no try/catch, the chain client's error is thrown as it is.
BaseProvider_deployContract(outcome, address) ==
    /\ IF providerWallet = "null"
       THEN /\ chain' = NoCalls
            /\ ret' = Thrown("BaseProvider.deployContract",
                             "Wallet not initialized. Provide private key.")
       ELSE /\ chain' = [calls |-> DeployCalls(outcome)]
            /\ ret' = IF outcome # "ok"
                      THEN Thrown("BaseProvider.deployContract", "provider error")
                      ELSE [op |-> "BaseProvider.deployContract", status |-> "ok",
                            address |-> address]
    /\ UNCHANGED <<providerWallet, repeated, wallet, contracts, gasSettings, lastScore>>

\* part_001's BaseIntegration.sendETH(to, amount, gasOptions).  amountOk:
\* whether ethers.parseEther accepts amount.toString().
sendETH(amountOk, outcome) ==
    /\ IF providerWallet = "null"
       THEN /\ chain' = NoCalls
            /\ ret' = Thrown("sendETH", "Wallet not initialized")
       ELSE IF ~amountOk
       THEN /\ chain' = NoCalls
            /\ ret' = Thrown("sendETH", "invalid amount")
       ELSE /\ chain' = [calls |-> IF outcome = "sendFails"
                                   THEN <<"sendTransaction">>
                                   ELSE <<"sendTransaction", "wait">>]
            /\ ret' = IF outcome # "ok"
                      THEN Thrown("sendETH", "provider error")
                      ELSE [op |-> "sendETH", status |-> "ok", from |-> providerWallet]
    /\ UNCHANGED <<providerWallet, repeated, wallet, contracts, gasSettings, lastScore>>

CallBaseProvider == \E key \in Keys \cup {NoKey} : BaseProvider(key)

CallBaseProviderDeployContract ==
    \E outcome \in DeployOutcomes, address \in Addresses :
        BaseProvider_deployContract(outcome, address)

CallSendETH == \E amountOk \in BOOLEAN, outcome \in SendOutcomes : sendETH(amountOk, outcome)

\* getOptimalGas() on the least and the greatest fee and on a missing one.
FewFeeAnswers == {Null, Some(0), Some(MaxFee)}

CallGetOptimalGasFew ==
    \E feeOk \in BOOLEAN, maxFee \in FewFeeAnswers, maxPriority \in FewFeeAnswers :
        getOptimalGas(feeOk, maxFee, maxPriority)

(***************************************************************************)
(* The two toolkits side by side: a BaseIntegration instance of            *)
(* BaseIntegration.js with a registry of at most MaxIdemNames names, and   *)
(* part_001's provider and gas optimizer.                                  *)
(***************************************************************************)
CallSendTransaction == \E outcome \in SendOutcomes : sendTransaction(outcome)

CallTrackBuilderActivity == \E statsOk \in BOOLEAN : trackBuilderActivity(statsOk)

CallGenerateActivityReport == \E statsOk \in BOOLEAN : generateActivityReport(statsOk)

NextToolkit ==
    \/ CallInitializeWallet
    \/ CallDeployContractFew
    \/ CallSendTransaction
    \/ CallCalculateActivityScore
    \/ CallTrackBuilderActivity
    \/ CallGenerateActivityReport
    \/ CallGetOptimizationRecommendations
    \/ CallGetOptimalGasFew
    \/ CallBaseProvider
    \/ CallBaseProviderDeployContract
    \/ CallSendETH

SpecToolkit == Init /\ [][NextToolkit]_vars

(***************************************************************************)
(* Properties.                                                             *)
(***************************************************************************)
GasOk == ret.op = "getOptimalGas" /\ ret.status = "ok"
GasFeesOk == ret.op = "getOptimalGasFees" /\ ret.status = "ok"
EligibilityOk == ret.op = "checkRewardsEligibility" /\ ret.status = "ok"
ObservedFee == Get(chain.maxFeePerGas)
ObservedPriority == Get(chain.maxPriorityFeePerGas)

\* s is floor(x * pct / 100), for x >= 0: 100*s <= pct*x < 100*(s+1), written
\* with x = 100*q + r so that no product is large.
IsFloorOfPercent(s, x, pct) ==
    LET q == x \div 100
        r == x % 100
    IN  /\ 100 * (s - pct * q) <= pct * r
        /\ pct * r < 100 * (s - pct * q + 1)

\* C1: for a non-negative observed fee the recommended fee caps are ordered
\* slow <= standard <= fast, for a non-negative observed priority fee so are
\* the priority caps, and getOptimalGasFees on a non-negative gas price
\* returns standard <= fast <= instant.
C1_TiersOrdered ==
    /\ GasOk =>
        /\ ObservedFee >= 0 =>
            /\ ret.recommended.slow.maxFeePerGas <= ret.recommended.standard.maxFeePerGas
            /\ ret.recommended.standard.maxFeePerGas <= ret.recommended.fast.maxFeePerGas
        /\ ObservedPriority >= 0 =>
            /\ ret.recommended.slow.maxPriorityFeePerGas
                 <= ret.recommended.standard.maxPriorityFeePerGas
            /\ ret.recommended.standard.maxPriorityFeePerGas
                 <= ret.recommended.fast.maxPriorityFeePerGas
    /\ (GasFeesOk /\ chain.gasPrice >= 0) =>
        /\ ret.standard <= ret.fast
        /\ ret.fast <= ret.instant

\* A schedule whose three tiers differ, for the fee and for the priority fee.
C1_Witness ==
    /\ GasOk
    /\ ObservedFee > 0
    /\ ObservedPriority > 0
    /\ ret.recommended.slow.maxFeePerGas < ret.recommended.standard.maxFeePerGas
    /\ ret.recommended.standard.maxFeePerGas < ret.recommended.fast.maxFeePerGas
    /\ ret.recommended.slow.maxPriorityFeePerGas < ret.recommended.standard.maxPriorityFeePerGas
    /\ ret.recommended.standard.maxPriorityFeePerGas < ret.recommended.fast.maxPriorityFeePerGas

\* C2: for a non-negative observed fee x the slow fee cap is floor(x*90/100)
\* and the standard fee cap is x; the same holds, independently, of the
\* priority fee and the priority caps.
C2_SlowIsFloor90 ==
    GasOk =>
        /\ ObservedFee >= 0 =>
            /\ IsFloorOfPercent(ret.recommended.slow.maxFeePerGas, ObservedFee, 90)
            /\ ret.recommended.standard.maxFeePerGas = ObservedFee
        /\ ObservedPriority >= 0 =>
            /\ IsFloorOfPercent(ret.recommended.slow.maxPriorityFeePerGas, ObservedPriority, 90)
            /\ ret.recommended.standard.maxPriorityFeePerGas = ObservedPriority

\* A schedule where 90% of the fee is not a whole number and was rounded
\* down, while 90% of the (different) priority fee is whole.
C2_Witness ==
    /\ GasOk
    /\ ObservedFee = 15
    /\ ret.recommended.slow.maxFeePerGas = 13
    /\ ObservedPriority = 10
    /\ ret.recommended.slow.maxPriorityFeePerGas = 9

\* C3 as claimed: the fast fee cap is floor(x * 1.25), and an observed fee of
\* 1_000_000_000 yields slow 900_000_000, standard 1_000_000_000 and fast
\* 1_250_000_000.
C3_FastIs125 ==
    (GasOk /\ ObservedFee >= 0) =>
        /\ IsFloorOfPercent(ret.recommended.fast.maxFeePerGas, ObservedFee, 125)
        /\ ObservedFee = 1000000000 =>
            /\ ret.recommended.slow.maxFeePerGas = 900000000
            /\ ret.recommended.standard.maxFeePerGas = 1000000000
            /\ ret.recommended.fast.maxFeePerGas = 1250000000

\* C3, amended: the fast tier of getOptimalGas is floor(x * 110 / 100), for
\* the fee and for the priority fee; an observed fee of 1_000_000_000 yields
\* slow 900_000_000, standard 1_000_000_000 and fast 1_100_000_000.  The
\* +25% tier is getOptimalGasFees' instant tier, floor(x * 125 / 100), whose
\* fast tier is floor(x * 110 / 100) too.
C3_FastIs110 ==
    /\ (GasOk /\ ObservedFee >= 0) =>
        /\ IsFloorOfPercent(ret.recommended.fast.maxFeePerGas, ObservedFee, 110)
        /\ ObservedFee = 1000000000 =>
            /\ ret.recommended.slow.maxFeePerGas = 900000000
            /\ ret.recommended.standard.maxFeePerGas = 1000000000
            /\ ret.recommended.fast.maxFeePerGas = 1100000000
    /\ (GasOk /\ ObservedPriority >= 0) =>
        IsFloorOfPercent(ret.recommended.fast.maxPriorityFeePerGas, ObservedPriority, 110)
    /\ (GasFeesOk /\ chain.gasPrice >= 0) =>
        /\ ret.standard = chain.gasPrice
        /\ IsFloorOfPercent(ret.fast, chain.gasPrice, 110)
        /\ IsFloorOfPercent(ret.instant, chain.gasPrice, 125)
        /\ chain.gasPrice = 1000000000 => ret.instant = 1250000000

\* The schedule of an observed fee of one gwei.
C3_Witness ==
    /\ GasOk
    /\ ObservedFee = 1000000000
    /\ ret.recommended.fast.maxFeePerGas = 1100000000

\* The score of a state that calculateActivityScore or trackBuilderActivity
\* has just reported.
ScoreReported ==
    \/ ret.op = "calculateActivityScore"
    \/ ret.op \in {"trackBuilderActivity", "generateActivityReport"} /\ ret.status = "ok"
ReportedScore ==
    IF ret.op = "calculateActivityScore" THEN ret.score ELSE ret.activity.activityScore

\* C4: the reported activity score is min(1000, 50 * (number of registered
\* contracts) + (10 if a wallet is set) + 20); with no contract and no
\* wallet it is 20.
C4_ScoreFormula ==
    ScoreReported =>
        /\ ReportedScore = Min(1000, MapSize(contracts) * 50
                                     + (IF wallet # "null" THEN 10 ELSE 0) + 20)
        /\ (MapSize(contracts) = 0 /\ wallet = "null") => ReportedScore = 20

\* calculateActivityScore() on a fresh instance returned 20.
C4_Witness ==
    /\ ret.op = "calculateActivityScore"
    /\ MapSize(contracts) = 0
    /\ wallet = "null"
    /\ ret.score = 20

\* C5: in every reachable state the activity score, as calculateActivityScore
\* would return it and as the last call reported it, lies in 0..1000.
C5_ScoreInRange ==
    /\ calculateActivityScore(contracts, wallet) \in 0..1000
    /\ ScoreReported => ReportedScore \in 0..1000

\* trackBuilderActivity reported a capped score: more than 20 contracts.
C5_Witness ==
    /\ ret.op = "trackBuilderActivity"
    /\ ret.status = "ok"
    /\ ret.activity.deployedContracts > 20
    /\ ret.activity.activityScore = 1000

\* C6: with a wallet set and 20 or more registered contracts the score is
\* 1000; with 19 or fewer it is below 1000, wallet or not.
C6_Saturation ==
    ScoreReported =>
        /\ (MapSize(contracts) >= 20 /\ wallet # "null") => ReportedScore = 1000
        /\ MapSize(contracts) <= 19 => ReportedScore < 1000

\* The score at exactly 20 contracts.
C6_Witness ==
    /\ ret.op = "calculateActivityScore"
    /\ MapSize(contracts) = 20
    /\ wallet # "null"
    /\ ret.score = 1000

\* C7: in every eligibility result overallEligible is the conjunction of the
\* three predicates.
C7_OverallIsConjunction ==
    EligibilityOk =>
        (ret.eligibility.overallEligible <=>
            /\ ret.eligibility.hasMinimumActivity
            /\ ret.eligibility.hasDeployedContracts
            /\ ret.eligibility.hasMinimumBalance)

\* An eligible account.
C7_Witness ==
    /\ EligibilityOk
    /\ ret.eligibility.overallEligible
    /\ ret.eligibility.hasMinimumBalance

\* The chain's balance answer is at least 0.01 ether = 10^16 wei.
BalanceAtLeastMin == ~chain.balance.neg /\ chain.balance.gwei >= 10000000
BalanceIsMin == chain.balance = [neg |-> FALSE, gwei |-> 10000000, wei |-> 0]

\* C8: hasMinimumActivity iff the transaction count is >= 10,
\* hasDeployedContracts iff the contract count is >= 1, hasMinimumBalance iff
\* the balance is >= 0.01 ether; (10 transactions, 1 contract, 0.01 ether) is
\* eligible and (9, 1, 0.01) has no minimum activity and is not eligible.
C8_InclusiveThresholds ==
    EligibilityOk =>
        /\ ret.eligibility.hasMinimumActivity <=> chain.transactionCount >= 10
        /\ ret.eligibility.hasDeployedContracts <=> ret.metrics.contractsDeployed >= 1
        /\ ret.eligibility.hasMinimumBalance <=> BalanceAtLeastMin
        /\ (chain.transactionCount = 10 /\ ret.metrics.contractsDeployed = 1 /\ BalanceIsMin)
             => ret.eligibility.overallEligible
        /\ (chain.transactionCount = 9 /\ ret.metrics.contractsDeployed = 1 /\ BalanceIsMin)
             => (~ret.eligibility.hasMinimumActivity /\ ~ret.eligibility.overallEligible)

\* The snapshot (10 transactions, 1 contract, 0.01 ether), found eligible.
C8_Witness ==
    /\ EligibilityOk
    /\ chain.transactionCount = 10
    /\ ret.metrics.contractsDeployed = 1
    /\ BalanceIsMin
    /\ ret.eligibility.overallEligible

C10_NegativeIsInvalidInput ==
    /\ ( /\ ret.op = "getOptimalGas"
         /\ chain.answered
         /\ \/ (~IsNull(chain.maxFeePerGas) /\ ObservedFee < 0)
            \/ (~IsNull(chain.maxPriorityFeePerGas) /\ ObservedPriority < 0) )
       => (ret.status = "error" /\ ret.error = "InvalidInput")
    /\ ( /\ ret.op = "checkRewardsEligibility"
         /\ chain.answered
         /\ (chain.transactionCount < 0 \/ chain.balance.neg) )
       => (ret.status = "error" /\ ret.error = "InvalidInput")

\* C11 as claimed: when the fee data carries a fee and no priority fee (null),
\* getOptimalGas still returns a schedule, and the priority cap of every tier
\* is 0.
C11_NullPriorityIsZero ==
    ( /\ ret.op = "getOptimalGas"
      /\ chain.answered
      /\ ~IsNull(chain.maxFeePerGas)
      /\ ObservedFee >= 0
      /\ IsNull(chain.maxPriorityFeePerGas) )
    => /\ ret.status = "ok"
       /\ ret.recommended.slow.maxPriorityFeePerGas = 0
       /\ ret.recommended.standard.maxPriorityFeePerGas = 0
       /\ ret.recommended.fast.maxPriorityFeePerGas = 0

\* The calls that compute a result from the instance or from the chain.
PureCalls ==
    {"calculateActivityScore", "getOptimizationRecommendations", "trackBuilderActivity",
     "generateActivityReport", "getOptimalGas"}

\* C12: a call of calculateActivityScore, getOptimizationRecommendations,
\* trackBuilderActivity, generateActivityReport or getOptimalGas, whether it
\* returns or throws, leaves the wallet, the contract registry and the gas
\* settings as they were (and part_001's provider wallet too).
C12_NoSideEffects ==
    [][ret'.op \in PureCalls =>
        /\ wallet' = wallet
        /\ contracts' = contracts
        /\ gasSettings' = gasSettings
        /\ providerWallet' = providerWallet]_vars

\* A report generated on an instance with a wallet and a registered contract,
\* beside a provider with a wallet.
C12_Witness ==
    /\ ret.op = "generateActivityReport"
    /\ ret.status = "ok"
    /\ wallet # "null"
    /\ MapSize(contracts) > 0
    /\ providerWallet # "null"

\* The rejection of a call made without a wallet: nothing was asked of the
\* chain client.
RejectedUnsent(message) ==
    /\ ret'.status = "error"
    /\ ret'.error = message
    /\ chain'.calls = <<>>

\* The call submitted a deployment or a transaction to the chain client.
Submits(calls) ==
    \E i \in 1..Len(calls) : calls[i] \in {"deploy", "sendTransaction"}

\* C13: a deployContract or sendTransaction call made while no wallet is set
\* throws 'Wallet not initialized' without a call to the chain client and
\* leaves the registry unchanged, so a call that submits a deployment or a
\* transaction started with the wallet set.  The same holds of part_001's
\* BaseProvider.deployContract (whose message goes on 'Provide private key.')
\* and sendETH with the provider's wallet.
C13_WalletGuard ==
    [][/\ (wallet = "null" /\ ret'.op \in {"deployContract", "sendTransaction"}) =>
            /\ RejectedUnsent("Wallet not initialized")
            /\ contracts' = contracts
       /\ (ret'.op \in {"deployContract", "sendTransaction"} /\ Submits(chain'.calls)) =>
            wallet # "null"
       /\ (providerWallet = "null" /\ ret'.op = "BaseProvider.deployContract") =>
            /\ RejectedUnsent("Wallet not initialized. Provide private key.")
            /\ contracts' = contracts
       /\ (providerWallet = "null" /\ ret'.op = "sendETH") =>
            /\ RejectedUnsent("Wallet not initialized")
            /\ contracts' = contracts
       /\ (ret'.op \in {"BaseProvider.deployContract", "sendETH"} /\ Submits(chain'.calls)) =>
            providerWallet # "null"]_vars

\* deployContract rejected on an instance without a wallet, while part_001's
\* provider has one.
C13_Witness ==
    /\ ret = Thrown("deployContract", "Wallet not initialized")
    /\ chain = NoCalls
    /\ wallet = "null"
    /\ MapSize(contracts) = 0
    /\ providerWallet # "null"

\* The step is a deployContract call that returned: the three deployment
\* calls were made and the result names the contract.
DeployedNow ==
    /\ ret'.op = "deployContract"
    /\ ret'.status = "ok"
    /\ chain'.calls = <<"deploy", "waitForDeployment", "getAddress">>

\* C14: a name enters the registry only in a deployContract call that
\* returned, after factory.deploy, waitForDeployment and getAddress all
\* answered; a deployContract call that got past the wallet guard and did not
\* return threw 'Contract deployment failed' and left the registry and the
\* activity score unchanged; and callContract on a name that is not in the
\* registry throws 'Contract <name> not found' without calling anything.
C14_RegisteredOnlyAfterSuccess ==
    [][/\ \A n \in (DOMAIN contracts') \ (DOMAIN contracts) :
            DeployedNow /\ ret'.name = n
       /\ (ret'.op = "deployContract" /\ wallet # "null" /\ ret'.status # "ok") =>
            /\ ret'.error = "Contract deployment failed"
            /\ contracts' = contracts
            /\ calculateActivityScore(contracts', wallet')
                 = calculateActivityScore(contracts, wallet)
       /\ (ret'.op = "deployContract" /\ ret'.status = "ok") =>
            /\ DeployedNow
            /\ ret'.name \in DOMAIN contracts'
       /\ (ret'.op = "callContract" /\ ret'.name \notin DOMAIN contracts) =>
            /\ ret'.status = "error"
            /\ ret'.error = "Contract not found"
            /\ chain'.calls = <<>>]_vars

\* A deployment that failed at its last step, getAddress, on an instance
\* that has contracts registered.
C14_Witness ==
    /\ ret = Thrown("deployContract", "Contract deployment failed")
    /\ chain.calls = <<"deploy", "waitForDeployment", "getAddress">>
    /\ MapSize(contracts) > 0

\* The step is an initializeWallet call that threw.
InitializeFailed ==
    /\ ret'.op = "initializeWallet"
    /\ ret'.status = "error"
    /\ ret'.error = "Failed to initialize wallet"

\* C15: an initializeWallet call that throws after the balance query (the
\* key was accepted) has assigned the wallet whose balance it asked for; one
\* that throws before it (the wallet could not be built) leaves the wallet as
\* it was, and a throwing call leaves the wallet as it was only then, or when
\* it assigned the wallet of the key already in use.  A wallet once set stays
\* set, deployContract and sendTransaction called with it pass the guard,
\* and every score reported with it includes the 10 points.
C15_WalletSetBeforeBalance ==
    [][/\ (InitializeFailed /\ chain'.calls = <<"getBalance">>) =>
            /\ wallet' # "null"
            /\ wallet' = chain'.address
       /\ (InitializeFailed /\ chain'.calls = <<>>) => wallet' = wallet
       /\ (InitializeFailed /\ wallet' = wallet) =>
            \/ chain'.calls = <<>>
            \/ (chain'.calls = <<"getBalance">> /\ wallet = chain'.address)
       /\ wallet # "null" => wallet' # "null"
       /\ (wallet # "null" /\ ret'.op \in {"deployContract", "sendTransaction"}) =>
            ~(ret'.status = "error" /\ ret'.error = "Wallet not initialized")
       /\ (ScoreReported' /\ wallet' # "null") =>
            ReportedScore' = Min(1000, MapSize(contracts') * 50 + 10 + 20)]_vars

\* initializeWallet threw after asking for the balance, and the wallet is
\* set.
C15_Witness ==
    /\ ret = Thrown("initializeWallet", "Failed to initialize wallet")
    /\ chain.calls = <<"getBalance">>
    /\ wallet # "null"
    /\ wallet = chain.address

\* C16: no call removes a name from the registry or unsets the wallet, so no
\* call lowers the score calculateActivityScore would return; and a score
\* that is reported is at least the last one reported before it, hence, each
\* of those being at least its predecessor, at least every earlier one.
C16_ScoreNeverDecreases ==
    [][/\ (DOMAIN contracts) \subseteq (DOMAIN contracts')
       /\ wallet # "null" => wallet' # "null"
       /\ calculateActivityScore(contracts', wallet')
            >= calculateActivityScore(contracts, wallet)
       /\ lastScore' # NoScore =>
            calculateActivityScore(contracts', wallet') >= lastScore'.score
       /\ (ScoreReported' /\ lastScore # NoScore) =>
            /\ ReportedScore' >= lastScore.score
            /\ lastScore'.score = ReportedScore']_vars

\* A score was reported with the wallet set, and a deployment made since
\* has raised the score above it.
C16_Witness ==
    /\ lastScore # NoScore
    /\ lastScore.hasWallet
    /\ ret.op = "deployContract"
    /\ ret.status = "ok"
    /\ calculateActivityScore(contracts, wallet) > lastScore.score

\* C17: the deployedContracts count that trackBuilderActivity reports, and
\* the count in the score, is the number of distinct names in the registry.
\* A deployContract call that returns under a name already registered puts
\* the new address in that name's entry and leaves the other entries, the
\* count and the score as they were, while under a new name the count grows
\* by one; an entry changes in no other step, and callContract calls the
\* contract at the address its name's entry holds, so the one of the latest
\* deployment under that name.
C17_CountsDistinctNames ==
    [][/\ (ret'.op \in {"trackBuilderActivity", "generateActivityReport"}
             /\ ret'.status = "ok") =>
            /\ ret'.activity.deployedContracts = Cardinality(DOMAIN contracts')
            /\ ret'.activity.activityScore
                 = Min(1000, Cardinality(DOMAIN contracts') * 50
                             + (IF wallet' # "null" THEN 10 ELSE 0) + 20)
       /\ (ret'.op = "deployContract" /\ ret'.status = "ok") =>
            /\ contracts' = [n \in (DOMAIN contracts) \cup {ret'.name} |->
                                IF n = ret'.name THEN [address |-> ret'.address]
                                                 ELSE contracts[n]]
            /\ IF ret'.name \in DOMAIN contracts
               THEN /\ Cardinality(DOMAIN contracts') = Cardinality(DOMAIN contracts)
                    /\ calculateActivityScore(contracts', wallet')
                         = calculateActivityScore(contracts, wallet)
               ELSE Cardinality(DOMAIN contracts') = Cardinality(DOMAIN contracts) + 1
       /\ ~(ret'.op = "deployContract" /\ ret'.status = "ok") => contracts' = contracts
       /\ (ret'.op = "callContract" /\ ret'.name \in DOMAIN contracts) =>
            /\ chain'.calls = <<"method">>
            /\ chain'.address = contracts[ret'.name].address
            /\ ret'.status = "ok" => ret'.address = contracts[ret'.name].address]_vars

\* A deployment that returned under name 1 while the registry holds more
\* than one name: a new name is always the registry's size plus one, so name
\* 1 was registered before, and this deployment replaced its entry; there
\* have been more deployments than there are names.
C17_Witness ==
    /\ ret.op = "deployContract"
    /\ ret.status = "ok"
    /\ ret.name = 1
    /\ MapSize(contracts) > 1
    /\ contracts[1].address = ret.address
    /\ ret.address = 2

====
